---- MODULE Spec2Model ----
\* Model of bevy_httpserver: the per-connection worker (HttpConnectionServer::run),
\* the orchestrator-facing handle (HttpConnectionTask), the three Bevy systems
\* (http_accept_connections, http_connection_status, http_request_responder),
\* the request router (HttpRequestHandler) and the path key (HttpPath).
EXTENDS Integers, Sequences, FiniteSets, TLC

\* ---------------------------------------------------------------- bounds
\* Number of router nodes constructed while a tree is built.
MaxNodes == 3
\* Number of parts of a path key grown by push.
MaxParts == 4
\* Number of connections in the runs checked for progress.
LiveConns == 1
\* Number of client connections that ever reach the listener.
MaxConns == 2
\* Number of requests the clients send, over all connections.
MaxRequests == 2

Conns == 1..MaxConns

\* ---------------------------------------------------------------- strings
\* A string is a sequence of one-character strings.
Sep == "/"
StrRoot == <<"/">>
StrEmpty == <<>>

\* ---------------------------------------------------------------- HttpPath
\* str.split("/"): the pieces between separators (always at least one piece).
RECURSIVE SplitFrom(_, _, _)
SplitFrom(str, i, piece) ==
    IF i > Len(str) THEN <<piece>>
    ELSE IF str[i] = Sep THEN <<piece>> \o SplitFrom(str, i + 1, <<>>)
    ELSE SplitFrom(str, i + 1, Append(piece, str[i]))

Split(str) == SplitFrom(str, 1, <<>>)

\* parts.join("/")
RECURSIVE Join(_)
Join(parts) ==
    IF Len(parts) = 0 THEN <<>>
    ELSE IF Len(parts) = 1 THEN parts[1]
    ELSE parts[1] \o <<Sep>> \o Join(Tail(parts))

\* impl From<&str> for HttpPath
PathFrom(str) ==
    IF str = StrEmpty THEN <<>>
    ELSE IF str = StrRoot THEN << <<>> >>
    ELSE Split(str)

\* HttpPath::to_string
PathToString(parts) ==
    IF Len(parts) = 0 THEN <<>>
    ELSE IF Len(parts) = 1 THEN StrRoot
    ELSE Join(parts)

\* HttpPath::push
PathPush(parts, str) ==
    IF Len(parts) = 0 THEN << <<>>, str >> ELSE Append(parts, str)

\* Mutant: only the parts both keys have are compared.
PathStartsWithSloppy(self, other) ==
    \A i \in 1..(IF Len(self) < Len(other) THEN Len(self) ELSE Len(other)) :
        self[i] = other[i]

\* Mutant: the empty key is a prefix of the empty key alone.
PathStartsWithStrict(self, other) ==
    IF Len(other) = 0 THEN Len(self) = 0
    ELSE IF Len(self) < Len(other) THEN FALSE
    ELSE \A i \in 1..Len(other) : self[i] = other[i]

\* HttpPath::starts_with
PathStartsWith(self, other) ==
    IF Len(self) < Len(other) THEN FALSE
    ELSE \A i \in 1..Len(other) : self[i] = other[i]

\* ---------------------------------------------------------------- router
\* The router tree the server is configured with: a root named "/" with two
\* children, as in the examples of lib.rs. A node is
\* [dir_name, function, children]; function names the handler fn.
Leaf(name, fn) == [dir_name |-> name, function |-> fn, children |-> <<>>]

ServerRoot ==
    [dir_name |-> StrRoot, function |-> "root",
     children |-> << Leaf(<<"a">>, "fa"), Leaf(<<"b">>, "fb") >>]

\* str.contains(ch)
Contains(str, ch) == \E i \in 1..Len(str) : str[i] = ch

\* Mutant: add_child takes any handler.
add_child_unchecked(self, handler) ==
    [panic |-> FALSE, node |-> [self EXCEPT !.children = Append(@, handler)]]

\* HttpRequestHandler::add_child: panics if the name of the handler to add
\* contains "/", else returns self with the handler pushed onto its children.
add_child(self, handler) ==
    IF Contains(handler.dir_name, Sep)
    THEN [panic |-> TRUE, node |-> self]
    ELSE [panic |-> FALSE, node |-> [self EXCEPT !.children = Append(@, handler)]]

\* Mutant: any router is taken as the root.
HttpServerResourceNewUnchecked(root) == [panic |-> FALSE, server |-> <<root>>]

\* HttpServerResource::new: panics if the name of the root is not "/".
HttpServerResourceNew(root) ==
    IF root.dir_name # StrRoot
    THEN [panic |-> TRUE, server |-> <<>>]
    ELSE [panic |-> FALSE, server |-> <<root>>]

\* Names given to HttpRequestHandler::new.
BuildNames == { StrRoot, <<"a">>, <<"b">>, <<"a", "/", "b">> }

\* Mutant: the last matching child wins.
LastMatch(hits) == CHOOSE k \in hits : \A j \in hits : k >= j

\* `for child in self.children.iter() { ... return ... }`: of the children that
\* match, the loop returns from the first in the order they were added.
FirstMatch(hits) == CHOOSE k \in hits : \A j \in hits : k <= j

\* Mutant: a node answers for every request that reaches it.
OwnFunctionAlways(node, current_path, request_path) ==
    [invoke |-> TRUE, function |-> node.function, status |-> "none"]

\* Mutant: a node that has children never answers for itself.
OwnFunctionLeafOnly(node, current_path, request_path) ==
    IF current_path # request_path \/ Len(node.children) > 0
    THEN [invoke |-> FALSE, function |-> "none", status |-> "404"]
    ELSE [invoke |-> TRUE, function |-> node.function, status |-> "none"]

\* The end of handle, after no child matched: NOT_FOUND unless the current path
\* is the request path, else the call of the node's own function.
OwnFunction(node, current_path, request_path) ==
    IF current_path # request_path
    THEN [invoke |-> FALSE, function |-> "none", status |-> "404"]
    ELSE [invoke |-> TRUE, function |-> node.function, status |-> "none"]

\* HttpRequestHandler::handle, up to the call of the handler function:
\* the function that is invoked, or NOT_FOUND.
RECURSIVE Handle(_, _, _)
Handle(node, path, uriPath) ==
    LET current_path == PathFrom(path)
        request_path == PathFrom(uriPath)
        Matches(i) == PathStartsWith(request_path,
                                     PathPush(current_path, node.children[i].dir_name))
        hits == {i \in 1..Len(node.children) : Matches(i)}
    IN  IF hits # {}
        THEN LET i == FirstMatch(hits)
             IN  Handle(node.children[i],
                        PathToString(PathPush(current_path, node.children[i].dir_name)),
                        uriPath)
        ELSE OwnFunction(node, current_path, request_path)

\* Mutant: routing starts from the empty path.
RootPathEmpty == StrEmpty

\* The current path the root node is given: the "/" of
\* `server_root.handle(world, "/", &request)`.
RootPath == StrRoot

\* Err(StatusCode::NOT_FOUND) as a handler result.
NotFound == [ok |-> FALSE, status |-> "404", connection |-> "none"]

\* HttpRequestHandler::handle as a whole: the handler functions it called, in
\* order, and what it returned, given what a handler function returns if called.
HandleResult(node, path, uriPath, fnres) ==
    LET route == Handle(node, path, uriPath)
    IN  [calls |-> IF route.invoke THEN <<route.function>> ELSE <<>>,
         result |-> IF route.invoke THEN fnres ELSE NotFound]

\* Router trees handle is applied to: those of the tests of
\* http_request_handler.rs (a root alone; a root with "a" then "b"; a root with
\* "a" that has a child "c"), and trees in which siblings have the same name.
Node(name, fn, children) == [dir_name |-> name, function |-> fn, children |-> children]

RouterTrees ==
    { Node(StrRoot, "root", <<>>),
      Node(StrRoot, "root", << Leaf(<<"a">>, "a1"), Leaf(<<"b">>, "b1") >>),
      Node(StrRoot, "root", << Node(<<"a">>, "a1", << Leaf(<<"c">>, "c1") >>) >>),
      Node(StrRoot, "root", << Leaf(<<"a">>, "a1"),
                               Node(<<"a">>, "a2", << Leaf(<<"c">>, "c1") >>) >>),
      Node(StrRoot, "root", << Node(<<"a">>, "a1", << Leaf(<<"c">>, "c1") >>),
                               Node(<<"a">>, "a2", << Leaf(<<"c">>, "c2") >>),
                               Leaf(<<"b">>, "b1") >>),
      Node(StrRoot, "root", << Node(<<"a">>, "a1", << Leaf(<<"b">>, "b1"),
                                                      Leaf(<<"b">>, "b2") >>),
                               Node(<<"b">>, "b3", << Leaf(<<"a">>, "a2") >>) >>) }

\* Request paths handle is applied to.
RouterUris ==
    { <<"/">>, <<"/", "a">>, <<"/", "b">>, <<"/", "c">>, <<"/", "a", "b">>,
      <<"/", "a", "/", "c">>, <<"/", "a", "/", "b">>, <<"/", "b", "/", "a">>,
      <<"/", "a", "/">>, <<"/", "a", "/", "c", "/", "a">> }

\* ---------------------------------------------------------------- codec (vebb)
\* Header values. "none" is an absent header.
ConnHdrs == {"none", "keep-alive", "close"}
KeepAliveHint == "timeout=30, max=1000"
DefaultContentType == "text/html; charset=utf-8"
PlainContentType == "text/plain; charset=utf-8"

\* vebb::keep_alive_requested: the request asks for a persistent connection
\* (explicitly, or by being HTTP/1.1 without a Connection header).
keep_alive_requested(request) ==
    \/ request.connection = "keep-alive"
    \/ request.version = "1.1" /\ request.connection = "none"

\* vebb::keep_alive_denied: the response explicitly carries Connection: close.
keep_alive_denied(response) == response.connection = "close"

\* vebb::keep_alive_granted: the response's own headers grant keep-alive.
keep_alive_granted(response) == response.connection = "keep-alive"

\* vebb::header_if_missing on one header.
header_if_missing(current, value) == IF current = "none" THEN value ELSE current

\* ---------------------------------------------------------------- requests, responses
\* What clients send: (version, Connection header) and a URI path.
RequestKinds == { <<"1.1", "none">>, <<"1.1", "keep-alive">>, <<"1.1", "close">> }

RequestPaths == { <<"/", "a">>, <<"/", "x">> }

Request(c, n, kind, path) ==
    [conn |-> c, seq |-> n, version |-> kind[1], connection |-> kind[2], path |-> path]

\* What a handler function returns: Ok(response) with the Connection header it
\* chose, or Err(status).
HandlerResults ==
    { [ok |-> TRUE, status |-> "200", connection |-> h] : h \in ConnHdrs }
        \cup { [ok |-> FALSE, status |-> "500", connection |-> "none"] }

\* The response a handler built for a request (headers as the handler left them).
HandlerResponse(request, hres) ==
    [origin |-> request.conn, seq |-> request.seq, status |-> hres.status,
     connection |-> hres.connection, keep_alive |-> "none",
     content_length |-> "none", content_type |-> "none", body |-> <<"page">>]

\* StatusCode::canonical_reason
canonical_reason(status) ==
    CASE status = "200" -> "OK"
      [] status = "404" -> "Not Found"
      [] status = "500" -> "Internal Server Error"

\* format!("{} {}", status.as_u16(), status.canonical_reason().unwrap())
StatusMessage(status) == <<status, " ", canonical_reason(status)>>

\* Mutant: the synthesized response leaves the Connection header out.
error_response_bare(request, status) ==
    [origin |-> request.conn, seq |-> request.seq, status |-> status,
     connection |-> "none", keep_alive |-> "none",
     content_length |-> "none", content_type |-> PlainContentType,
     body |-> StatusMessage(status)]

\* HttpRequestHandler::error_response
error_response(request, status) ==
    [origin |-> request.conn, seq |-> request.seq, status |-> status,
     connection |-> "close", keep_alive |-> "none",
     content_length |-> "none", content_type |-> PlainContentType,
     body |-> StatusMessage(status)]

\* format!("{}", len), for the body sizes that occur.
Decimal(n) == <<"0", "1", "2", "3", "4", "5", "6", "7", "8", "9">>[n + 1]

\* Mutant: finalize_response sets the Connection header whatever the response
\* carries.
finalize_response_overwrite(request, response) ==
    LET persist == keep_alive_requested(request) /\ ~keep_alive_denied(response)
    IN  [response EXCEPT
            !.connection = IF persist THEN "keep-alive" ELSE "close",
            !.keep_alive = IF persist THEN header_if_missing(@, KeepAliveHint) ELSE @,
            !.content_length = header_if_missing(@, Decimal(Len(response.body))),
            !.content_type = header_if_missing(@, DefaultContentType)]

\* Mutant: finalize_response offers keep-alive whatever the request asked.
finalize_response_keepalive(request, response) ==
    LET persist == ~keep_alive_denied(response)
    IN  [response EXCEPT
            !.connection = IF persist THEN header_if_missing(@, "keep-alive")
                           ELSE header_if_missing(@, "close"),
            !.keep_alive = IF persist THEN header_if_missing(@, KeepAliveHint) ELSE @,
            !.content_length = header_if_missing(@, Decimal(Len(response.body))),
            !.content_type = header_if_missing(@, DefaultContentType)]

\* Mutant: finalize_response leaves the Content-Length header as it is.
finalize_response_nolength(request, response) ==
    LET persist == keep_alive_requested(request) /\ ~keep_alive_denied(response)
    IN  [response EXCEPT
            !.connection = IF persist THEN header_if_missing(@, "keep-alive")
                           ELSE header_if_missing(@, "close"),
            !.keep_alive = IF persist THEN header_if_missing(@, KeepAliveHint) ELSE @,
            !.content_type = header_if_missing(@, DefaultContentType)]

\* Mutant: finalize_response without its keep-alive branch.
finalize_response_close(request, response) ==
    [response EXCEPT
        !.connection = header_if_missing(@, "close"),
        !.content_length = header_if_missing(@, Decimal(Len(response.body))),
        !.content_type = header_if_missing(@, DefaultContentType)]

\* finalize_response
finalize_response(request, response) ==
    LET persist == keep_alive_requested(request) /\ ~keep_alive_denied(response)
    IN  [response EXCEPT
            !.connection = IF persist THEN header_if_missing(@, "keep-alive")
                           ELSE header_if_missing(@, "close"),
            !.keep_alive = IF persist THEN header_if_missing(@, KeepAliveHint) ELSE @,
            !.content_length = header_if_missing(@, Decimal(Len(response.body))),
            !.content_type = header_if_missing(@, DefaultContentType)]

\* Whether the router invokes a handler function for the request.
Invoked(request) == Handle(ServerRoot, RootPath, request.path).invoke

\* The body of the second loop of http_request_responder up to set_response:
\* the response for one taken request, given what the handler returns if invoked.
ResponseFor(request, hres) ==
    LET route == Handle(ServerRoot, RootPath, request.path)
    IN  IF ~route.invoke THEN error_response(request, route.status)
        ELSE IF ~hres.ok THEN error_response(request, hres.status)
        ELSE finalize_response(request, HandlerResponse(request, hres))

\* ---------------------------------------------------------------- state
VARIABLES
    backlog,     \* connections waiting on the listener, not yet accepted
    accepted,    \* number of connections accepted so far (connection ids 1..accepted)
    wpc,         \* worker position in run(), per connection
    cur,         \* worker local `response` (Option), per connection
    result,      \* what run() returned, per connection
    teardown,    \* outcome of connection.close() in run(), per connection
    reqSlot,     \* Arc<Mutex<Option<Request>>>, per connection
    respSlot,    \* Arc<Mutex<Option<Response>>>, per connection
    handles,     \* entities carrying an HttpConnectionTask
    cmdSpawn,    \* Commands queued by http_accept_connections
    cmdDespawn,  \* Commands queued by http_connection_status
    opc,         \* orchestrator position
    todo,        \* entities the running query iteration has yet to visit
    probe,       \* entity whose has_request() returned true, take_request() pending
    requests,    \* Vec<(Entity, Request)> of http_request_responder
    reads,       \* history: number of read_request calls, per connection
    lastRead,    \* history: outcome of the latest read_request, per connection
    pubs,        \* history: number of set_request calls, per connection
    takes,       \* history: number of take_response calls that returned
    writes,      \* history: number of send_response calls, per connection
    nsets,       \* history: number of set_response calls on the connection's handle
    wrote,       \* history: outcome of the latest send_response, per connection
    exch,        \* history: the exchange in progress or just completed, per connection
    wslot,       \* the two Arcs a worker holds (slot ids), per connection
    hslot,       \* the two Arcs an HttpConnectionTask holds (slot ids), per entity
    made,        \* history: workers spawned and handles spawned, per connection
    alive,       \* entities that exist in the World
    rtree,       \* router: the tree handle is called on
    ruri,        \* router: the path of the request handle is called with
    rgiven,      \* router: what the handler function returns if it is called
    rout,        \* router: the calls handle made and what it returned
    breg,        \* construction: the router nodes held while a tree is built
    bserver,     \* construction: the HttpServerResource, once constructed
    bpanic,      \* construction: the call that panicked
    pa,          \* path: the string the first key is made from
    pb,          \* path: the string the second key is made from
    ka,          \* path: the first key (its parts)
    kb,          \* path: the second key (its parts)
    pout,        \* path: the latest operation on the keys and its result
    ureq,        \* slot pair alone: the request slot
    uresp,       \* slot pair alone: the response slot
    uout,        \* slot pair alone: the latest call and its result
    freq,        \* finalize alone: the request
    fresp,       \* finalize alone: the response before finalize_response
    fout,        \* finalize alone: the response after finalize_response
    hnode,       \* handle alone: the node whose handle is running
    hpath,       \* handle alone: the `path` argument of the running call
    hcand,       \* handle alone: the candidate key the caller matched (Option)
    hreq,        \* handle alone: the path of the request
    hout         \* handle alone: what the innermost call did (Option)

workerVars == <<wpc, cur, result, teardown, reqSlot, respSlot>>
orchVars == <<backlog, accepted, handles, cmdSpawn, cmdDespawn, opc, todo, probe, requests>>
histVars == <<reads, lastRead, pubs, takes, writes, nsets, wrote, exch>>
pairVars == <<wslot, made>>
routerVars == <<rtree, ruri, rgiven, rout>>
buildVars == <<breg, bserver, bpanic>>
pathVars == <<pa, pb, ka, kb, pout>>
unitVars == <<ureq, uresp, uout>>
finalVars == <<freq, fresp, fout>>
descVars == <<hnode, hpath, hcand, hreq, hout>>
libVars == <<buildVars, pathVars, unitVars, finalVars, descVars>>
serverVars == <<workerVars, orchVars, histVars, pairVars, hslot, alive>>
vars == <<serverVars, routerVars, libVars>>

Systems == {"accept", "reap", "respond"}
NoEntity == 0
IoOutcomes == {"ok", "aborted", "other"}

\* An exchange: the request published, what the handler function returned for it
\* (if one was invoked), the response set for it, the response written.
NoExchange == [request |-> <<>>, handler |-> <<>>, set |-> <<>>, written |-> <<>>]

\* A worker or handle that holds no slots (it does not exist).
NoSlots == [request |-> 0, response |-> 0]
NoneMade == [workers |-> 0, handles |-> 0]

Running == [state |-> "running", cause |-> "none", peer |-> FALSE, detail |-> "none"]
RunOk == [state |-> "ok", cause |-> "none", peer |-> FALSE, detail |-> "none"]
RunPanic == [state |-> "panic", cause |-> "take_response", peer |-> FALSE, detail |-> "none"]

\* The server after HttpServerPlugin::build: nothing accepted, nothing running.
ServerInit ==
    /\ backlog = 0
    /\ accepted = 0
    /\ wpc = [c \in Conns |-> "unborn"]
    /\ cur = [c \in Conns |-> <<>>]
    /\ result = [c \in Conns |-> Running]
    /\ teardown = [c \in Conns |-> "none"]
    /\ reqSlot = [c \in Conns |-> <<>>]
    /\ respSlot = [c \in Conns |-> <<>>]
    /\ handles = {}
    /\ cmdSpawn = {}
    /\ cmdDespawn = {}
    /\ opc = "idle"
    /\ todo = {}
    /\ probe = NoEntity
    /\ requests = <<>>
    /\ reads = [c \in Conns |-> 0]
    /\ lastRead = [c \in Conns |-> "none"]
    /\ pubs = [c \in Conns |-> 0]
    /\ takes = [c \in Conns |-> 0]
    /\ writes = [c \in Conns |-> 0]
    /\ nsets = [c \in Conns |-> 0]
    /\ wrote = [c \in Conns |-> "none"]
    /\ exch = [c \in Conns |-> NoExchange]
    /\ wslot = [c \in Conns |-> NoSlots]
    /\ hslot = [c \in Conns |-> NoSlots]
    /\ made = [c \in Conns |-> NoneMade]
    /\ alive = {}

\* handle has not been called.
NotRouted == [calls |-> <<>>, result |-> <<>>]

\* The router as the server holds it, before any call of handle.
RouterIdle ==
    /\ rtree = ServerRoot
    /\ ruri = StrRoot
    /\ rgiven = <<>>
    /\ rout = NotRouted

\* Construction is over: the server holds its router.
BuildIdle ==
    /\ breg = <<ServerRoot>>
    /\ bserver = <<ServerRoot>>
    /\ bpanic = "none"

\* No operation on a path key outside handle.
NoPathOp == [op |-> "none", a |-> <<>>, b |-> <<>>, holds |-> FALSE, text |-> <<>>]

PathIdle ==
    /\ pa = StrEmpty
    /\ pb = StrEmpty
    /\ ka = <<>>
    /\ kb = <<>>
    /\ pout = NoPathOp

\* No call on a slot pair outside the server.
NoCall == [op |-> "none", arg |-> <<>>, ret |-> <<>>, holds |-> FALSE]

UnitIdle ==
    /\ ureq = <<>>
    /\ uresp = <<>>
    /\ uout = NoCall

\* No call of finalize_response outside the server.
FinalIdle ==
    /\ freq = <<>>
    /\ fresp = <<>>
    /\ fout = <<>>

\* No call of handle is followed step by step.
DescentIdle ==
    /\ hnode = ServerRoot
    /\ hpath = RootPath
    /\ hcand = <<>>
    /\ hreq = StrRoot
    /\ hout = <<>>

Init ==
    /\ ServerInit
    /\ RouterIdle
    /\ BuildIdle
    /\ PathIdle
    /\ UnitIdle
    /\ FinalIdle
    /\ DescentIdle

\* ---------------------------------------------------------------- worker: HttpConnectionServer::run
\* Mutant: run() leaves the loop right after publishing the request.
AfterPublishClose == "close"

\* Mutant: run() starts the next read without waiting for the response.
AfterPublishNoWait == "read"

\* Where run() goes after set_request: the response wait.
AfterPublish == "wait"

\* Mutant: Ok(None) is treated like a request and run() goes on to wait.
AfterReadNoneWait == "wait"

\* Where run() goes when read_request returns Ok(None): break to the teardown.
AfterReadNone == "close"

\* Mutant: the read error is returned without the peer address.
ReadErrorResultNoPeer(status) ==
    [state |-> "err", cause |-> "read", peer |-> FALSE, detail |-> status]

\* The Err run() returns when read_request fails.
ReadErrorResult(status) ==
    [state |-> "err", cause |-> "read", peer |-> TRUE, detail |-> status]

\* The Err run() returns when send_response fails with another kind of error.
WriteErrorResult(kind) ==
    [state |-> "err", cause |-> "write", peer |-> FALSE, detail |-> kind]

\* The Err run() returns when close() fails with another kind of error.
CloseErrorResult(kind) ==
    [state |-> "err", cause |-> "close", peer |-> FALSE, detail |-> kind]

\* Mutant: set stores nothing.
SlotAfterSetNone(value) == <<>>

\* set_request, set_response: `*slot.lock().unwrap() = value`, an Option.
SlotAfterSet(value) == value

\* has_request, has_response: `slot.lock().unwrap().is_some()`
SlotHas(slot) == slot # <<>>

\* Mutant: take returns whatever the slot holds.
TakePanicsNever(slot) == FALSE

\* take_request, take_response: `if let Some(v) = slot.lock().unwrap().take()`
\* fails and the else branch panics.
TakePanics(slot) == slot = <<>>

\* Mutant: the response wait gives up although the slot is empty.
has_response_always(c) == TRUE

\* HttpConnectionServer::has_response
has_response(c) == SlotHas(respSlot[wslot[c].response])

\* Mutant: take_response clones the value and leaves it in the slot.
RespSlotAfterTakeKept(slot) == slot

\* The slot content take_response leaves behind.
RespSlotAfterTake(slot) == <<>>

\* The response run() hands to send_response: the one it took.
WrittenResponse(response) == response

\* Mutant: run() loops after every successful send_response, whatever keep_alive is.
AfterWriteAlwaysLoop(outcome, keep_alive) ==
    IF outcome = "other" THEN "done"
    ELSE IF outcome = "aborted" THEN "close"
    ELSE "read"

\* Where run() goes after send_response, by its outcome and keep_alive.
AfterWrite(outcome, keep_alive) ==
    IF outcome = "other" THEN "done"
    ELSE IF outcome = "aborted" THEN "close"
    ELSE IF keep_alive THEN "read"
    ELSE "close"

\* Mutant: a peer-closed close() failure is returned as an error too.
CloseResultStrict(outcome) ==
    IF outcome = "ok" THEN RunOk ELSE CloseErrorResult(outcome)

\* What run() returns after connection.close(), by its outcome.
CloseResult(outcome) ==
    IF outcome = "other" THEN CloseErrorResult("other") ELSE RunOk

RECURSIVE SumTo(_, _)
SumTo(f, n) == IF n = 0 THEN 0 ELSE f[n] + SumTo(f, n - 1)

\* Requests read so far, over all connections.
TotalPubs == SumTo(pubs, MaxConns)

\* read_request returns Ok(Some(request)): publish it and go wait.
WorkerReadRequest(c, kind, path) ==
    /\ UNCHANGED <<pairVars, hslot, alive, routerVars, libVars>>
    /\ wpc[c] = "read"
    /\ TotalPubs < MaxRequests
    /\ LET request == Request(c, pubs[c] + 1, kind, path)
       IN  /\ reqSlot' = [reqSlot EXCEPT ![wslot[c].request] = SlotAfterSet(<<request>>)]
           /\ exch' = [exch EXCEPT ![c] = [NoExchange EXCEPT !.request = <<request>>]]
    /\ pubs' = [pubs EXCEPT ![c] = @ + 1]
    /\ reads' = [reads EXCEPT ![c] = @ + 1]
    /\ lastRead' = [lastRead EXCEPT ![c] = "request"]
    /\ wrote' = [wrote EXCEPT ![c] = "none"]
    /\ wpc' = [wpc EXCEPT ![c] = AfterPublish]
    /\ UNCHANGED <<cur, result, teardown, respSlot, orchVars, takes, writes, nsets>>

\* read_request returns Ok(None): the peer closed the connection.
WorkerReadNone(c) ==
    /\ UNCHANGED <<pairVars, hslot, alive, routerVars, libVars>>
    /\ wpc[c] = "read"
    /\ reads' = [reads EXCEPT ![c] = @ + 1]
    /\ lastRead' = [lastRead EXCEPT ![c] = "closed"]
    /\ wpc' = [wpc EXCEPT ![c] = AfterReadNone]
    /\ exch' = [exch EXCEPT ![c] = NoExchange]
    /\ wrote' = [wrote EXCEPT ![c] = "none"]
    /\ UNCHANGED <<cur, result, teardown, reqSlot, respSlot, orchVars, pubs, takes, writes,
                   nsets>>

\* read_request returns Err(status).
WorkerReadError(c) ==
    /\ UNCHANGED <<pairVars, hslot, alive, routerVars, libVars>>
    /\ wpc[c] = "read"
    /\ reads' = [reads EXCEPT ![c] = @ + 1]
    /\ lastRead' = [lastRead EXCEPT ![c] = "error"]
    /\ wpc' = [wpc EXCEPT ![c] = "done"]
    /\ result' = [result EXCEPT ![c] = ReadErrorResult("400")]
    /\ exch' = [exch EXCEPT ![c] = NoExchange]
    /\ wrote' = [wrote EXCEPT ![c] = "none"]
    /\ UNCHANGED <<cur, teardown, reqSlot, respSlot, orchVars, pubs, takes, writes,
                   nsets>>

\* One turn of `while !self.has_response() { thread::yield_now(); }`.
WorkerPoll(c) ==
    /\ UNCHANGED <<pairVars, hslot, alive, routerVars, libVars>>
    /\ wpc[c] = "wait"
    /\ wpc' = [wpc EXCEPT ![c] = IF has_response(c) THEN "take" ELSE "wait"]
    /\ UNCHANGED <<cur, result, teardown, reqSlot, respSlot, orchVars, histVars>>

\* take_response: panics on an empty slot.
WorkerTake(c) ==
    /\ UNCHANGED <<pairVars, hslot, alive, routerVars, libVars>>
    /\ wpc[c] = "take"
    /\ IF ~TakePanics(respSlot[wslot[c].response])
       THEN /\ cur' = [cur EXCEPT ![c] = respSlot[wslot[c].response]]
            /\ respSlot' = [respSlot EXCEPT ![wslot[c].response] = RespSlotAfterTake(@)]
            /\ wpc' = [wpc EXCEPT ![c] = "write"]
            /\ takes' = [takes EXCEPT ![c] = @ + 1]
            /\ UNCHANGED result
       ELSE /\ wpc' = [wpc EXCEPT ![c] = "done"]
            /\ result' = [result EXCEPT ![c] = RunPanic]
            /\ UNCHANGED <<cur, respSlot, takes>>
    /\ UNCHANGED <<teardown, reqSlot, orchVars, reads, lastRead, pubs, writes, nsets, wrote,
                   exch>>

\* keep_alive_granted, send_response and what follows it.
WorkerWrite(c, outcome) ==
    /\ UNCHANGED <<pairVars, hslot, alive, routerVars, libVars>>
    /\ wpc[c] = "write"
    /\ LET response == cur[c][1]
           keep_alive == keep_alive_granted(response)
           next == AfterWrite(outcome, keep_alive)
       IN  /\ exch' = [exch EXCEPT ![c].written = <<WrittenResponse(response)>>]
           /\ wpc' = [wpc EXCEPT ![c] = next]
           /\ result' = [result EXCEPT ![c] =
                           IF next = "done" THEN WriteErrorResult(outcome) ELSE @]
    /\ writes' = [writes EXCEPT ![c] = @ + 1]
    /\ wrote' = [wrote EXCEPT ![c] = outcome]
    /\ cur' = [cur EXCEPT ![c] = <<>>]
    /\ UNCHANGED <<teardown, reqSlot, respSlot, orchVars, reads, lastRead, pubs, takes, nsets>>

\* connection.close() (flush, shutdown both directions) and the return of run().
WorkerClose(c, outcome) ==
    /\ UNCHANGED <<pairVars, hslot, alive, routerVars, libVars>>
    /\ wpc[c] = "close"
    /\ teardown' = [teardown EXCEPT ![c] = outcome]
    /\ result' = [result EXCEPT ![c] = CloseResult(outcome)]
    /\ wpc' = [wpc EXCEPT ![c] = "done"]
    /\ exch' = [exch EXCEPT ![c] = NoExchange]
    /\ wrote' = [wrote EXCEPT ![c] = "none"]
    /\ UNCHANGED <<cur, reqSlot, respSlot, orchVars, reads, lastRead, pubs, takes, writes,
                   nsets>>

\* ---------------------------------------------------------------- clients
\* A client connects to the listener.
ClientConnect ==
    /\ UNCHANGED <<pairVars, hslot, alive, routerVars, libVars>>
    /\ backlog + accepted < MaxConns
    /\ backlog' = backlog + 1
    /\ UNCHANGED <<accepted, handles, cmdSpawn, cmdDespawn, opc, todo, probe, requests,
                   workerVars, histVars>>

\* ---------------------------------------------------------------- orchestrator
\* The schedule starts one of the three systems.
StartSystem(sys) ==
    /\ UNCHANGED <<pairVars, hslot, alive, routerVars, libVars>>
    /\ opc = "idle"
    /\ opc' = CASE sys = "accept" -> "accept"
                [] sys = "reap" -> "reap"
                [] sys = "respond" -> "collect"
    /\ todo' = IF sys = "accept" THEN {} ELSE handles
    /\ requests' = <<>>
    /\ UNCHANGED <<backlog, accepted, handles, cmdSpawn, cmdDespawn, probe,
                   workerVars, histVars>>

\* The schedule applies the queued Commands (between systems).
ApplyCommands ==
    /\ UNCHANGED <<routerVars, libVars>>
    /\ opc = "idle"
    /\ cmdSpawn \cup cmdDespawn # {}
    /\ handles' = (handles \cup cmdSpawn) \ cmdDespawn
    /\ alive' = (alive \cup cmdSpawn) \ cmdDespawn
    /\ hslot' = [h \in Conns |-> IF h \in cmdDespawn THEN NoSlots ELSE hslot[h]]
    /\ cmdSpawn' = {}
    /\ cmdDespawn' = {}
    /\ UNCHANGED <<backlog, accepted, opc, todo, probe, requests, workerVars, histVars,
                   pairVars>>

\* ---------------------------------------------------------------- http_accept_connections
\* Mutant: the slots of the first connection are handed to every connection.
NewSlotsFirst(c) == [request |-> 1, response |-> 1]

\* The two `Arc::new(Mutex::new(None))` made for connection c: fresh slots,
\* identified by the number of the connection.
NewSlots(c) == [request |-> c, response |-> c]

\* accept() returns Ok: two empty slots are made, a worker holding clones of both
\* is spawned on the task pool, the handle holding both is queued for spawning.
AcceptOne ==
    /\ UNCHANGED <<routerVars, libVars>>
    /\ opc = "accept"
    /\ backlog > 0
    /\ LET c == accepted + 1
           slots == NewSlots(c)
       IN  /\ accepted' = c
           /\ reqSlot' = [reqSlot EXCEPT ![slots.request] = <<>>]
           /\ respSlot' = [respSlot EXCEPT ![slots.response] = <<>>]
           /\ wslot' = [wslot EXCEPT ![c] = slots]
           /\ wpc' = [wpc EXCEPT ![c] = "read"]
           /\ hslot' = [hslot EXCEPT ![c] = slots]
           /\ cmdSpawn' = cmdSpawn \cup {c}
           /\ made' = [made EXCEPT ![c] = [workers |-> @.workers + 1,
                                           handles |-> @.handles + 1]]
    /\ backlog' = backlog - 1
    /\ UNCHANGED <<cur, result, teardown, handles, cmdDespawn, opc, todo, probe,
                   requests, histVars, alive>>

\* Mutant: every accept error ends the pass quietly.
AfterAcceptErrorSkip(kind) == "idle"

\* What follows an accept() error, by its kind: WouldBlock ends the loop, any
\* other kind panics.
AfterAcceptError(kind) == IF kind = "WouldBlock" THEN "idle" ELSE "panic_accept"

\* accept() returns WouldBlock (nothing is pending on the listener): the pass ends.
AcceptWouldBlock ==
    /\ UNCHANGED <<pairVars, hslot, alive, routerVars, libVars>>
    /\ opc = "accept"
    /\ backlog = 0
    /\ opc' = AfterAcceptError("WouldBlock")
    /\ UNCHANGED <<backlog, accepted, handles, cmdSpawn, cmdDespawn, todo, probe, requests,
                   workerVars, histVars>>

\* accept() returns any other error: panic.
AcceptFatal ==
    /\ UNCHANGED <<pairVars, hslot, alive, routerVars, libVars>>
    /\ opc = "accept"
    /\ opc' = AfterAcceptError("other")
    /\ UNCHANGED <<backlog, accepted, handles, cmdSpawn, cmdDespawn, todo, probe,
                   requests, workerVars, histVars>>

\* ---------------------------------------------------------------- http_connection_status
\* Mutant: the poll never reports a result.
poll_once_never(h) == FALSE

\* Mutant: a task that is still running reports a result.
poll_once_running(h) == wpc[h] # "done"

\* Mutant: the task is awaited to completion, so it always reports a result.
poll_once_always(h) == TRUE

\* future::poll_once on the task of a handle: Some(result) iff run() has returned.
poll_once(h) == wpc[h] = "done"

\* Mutant: a worker that returned Err brings the system down like one that panicked.
TaskPanicsOnFailure(res) == res.state \in {"panic", "err"}

\* Whether polling a task panics: a panic inside the task is propagated to the
\* poller; Ok and Err are returned to the `match result`.
TaskPanics(res) == res.state = "panic"

\* check_conntask_status on one entity: a single poll of its task.
ReapPoll(h) ==
    /\ UNCHANGED <<pairVars, hslot, alive, routerVars, libVars>>
    /\ opc = "reap"
    /\ h \in todo
    /\ todo' = todo \ {h}
    /\ IF TaskPanics(result[h])
       THEN opc' = "panic_task" /\ UNCHANGED cmdDespawn
       ELSE /\ cmdDespawn' = IF poll_once(h) THEN cmdDespawn \cup {h} ELSE cmdDespawn
            /\ UNCHANGED opc
    /\ UNCHANGED <<backlog, accepted, handles, cmdSpawn, probe, requests,
                   workerVars, histVars>>

\* The query iteration is over.
ReapEnd ==
    /\ UNCHANGED <<pairVars, hslot, alive, routerVars, libVars>>
    /\ opc = "reap"
    /\ todo = {}
    /\ opc' = "idle"
    /\ UNCHANGED <<backlog, accepted, handles, cmdSpawn, cmdDespawn, todo, probe, requests,
                   workerVars, histVars>>

\* ---------------------------------------------------------------- http_request_responder
\* Mutant: the responder never sees a request.
has_request_never(h) == FALSE

\* Mutant: the responder takes without looking.
has_request_always(h) == TRUE

\* HttpConnectionTask::has_request
has_request(h) == SlotHas(reqSlot[hslot[h].request])

\* Mutant: take_request clones the value and leaves it in the slot.
SlotAfterTakeKept(slot) == slot

\* The slot content HttpConnectionTask::take_request leaves behind.
SlotAfterTake(slot) == <<>>

\* Mutant: every response of the pass goes to the entity of the last request taken.
ResponseEntityLast(item) == requests[Len(requests)].entity

\* The entity whose HttpConnectionTask receives the response of an item of `requests`.
ResponseEntity(item) == item.entity

\* First loop, `if conntask.has_request()` on one entity.
CollectProbe(h) ==
    /\ UNCHANGED <<pairVars, hslot, alive, routerVars, libVars>>
    /\ opc = "collect"
    /\ probe = NoEntity
    /\ h \in todo
    /\ todo' = todo \ {h}
    /\ probe' = IF has_request(h) THEN h ELSE NoEntity
    /\ UNCHANGED <<backlog, accepted, handles, cmdSpawn, cmdDespawn, opc, requests,
                   workerVars, histVars>>

\* First loop, `requests.push((entity, conntask.take_request()))`:
\* take_request panics on an empty slot.
CollectTake ==
    /\ UNCHANGED <<pairVars, hslot, alive, routerVars, libVars>>
    /\ opc = "collect"
    /\ probe # NoEntity
    /\ IF ~TakePanics(reqSlot[hslot[probe].request])
       THEN /\ requests' = Append(requests, [entity |-> probe,
                                             request |-> reqSlot[hslot[probe].request][1]])
            /\ reqSlot' = [reqSlot EXCEPT ![hslot[probe].request] = SlotAfterTake(@)]
            /\ UNCHANGED opc
       ELSE /\ opc' = "panic_take_request"
            /\ UNCHANGED <<requests, reqSlot>>
    /\ probe' = NoEntity
    /\ UNCHANGED <<backlog, accepted, handles, cmdSpawn, cmdDespawn, todo,
                   wpc, cur, result, teardown, respSlot, histVars>>

\* The first loop is over.
CollectEnd ==
    /\ UNCHANGED <<pairVars, hslot, alive, routerVars, libVars>>
    /\ opc = "collect"
    /\ probe = NoEntity
    /\ todo = {}
    /\ opc' = "dispatch"
    /\ UNCHANGED <<backlog, accepted, handles, cmdSpawn, cmdDespawn, todo, probe,
                   requests, workerVars, histVars>>

\* What a handler function does to the World it is given: nothing, remove the
\* HttpConnectionTask of an entity, or despawn an entity.
HandlerEffects ==
    {[kind |-> "none", entity |-> NoEntity]}
        \cup {[kind |-> k, entity |-> e] : k \in {"remove", "despawn"}, e \in Conns}

\* Second loop, one item: route, handle (the handler function runs on the World),
\* finalize, then world.entity_mut(entity), which panics if the entity does not
\* exist, and get_mut::<HttpConnectionTask>(): set_response on Some, drop the
\* response on None. A worker whose handle is dropped keeps running: run() has
\* no await point at which the task could be cancelled.
Dispatch(hres, effect) ==
    /\ UNCHANGED <<routerVars, libVars>>
    /\ opc = "dispatch"
    /\ requests # <<>>
    /\ effect.kind # "none" => Invoked(Head(requests).request)
    /\ effect.kind = "remove" => effect.entity \in handles
    /\ effect.kind = "despawn" => effect.entity \in alive
    /\ LET item == Head(requests)
           response == ResponseFor(item.request, hres)
           entity == ResponseEntity(item)
           despawned == IF effect.kind = "despawn" THEN {effect.entity} ELSE {}
           untasked == IF effect.kind = "none" THEN {} ELSE {effect.entity}
       IN  /\ alive' = alive \ despawned
           /\ handles' = handles \ untasked
           /\ hslot' = [h \in Conns |-> IF h \in untasked THEN NoSlots ELSE hslot[h]]
           /\ IF entity \notin alive'
              THEN /\ opc' = "panic_entity_mut"
                   /\ UNCHANGED <<respSlot, nsets, exch>>
              ELSE IF entity \notin handles'
              THEN UNCHANGED <<opc, respSlot, nsets, exch>>
              ELSE /\ respSlot' = [respSlot EXCEPT ![hslot[entity].response] =
                                                       SlotAfterSet(<<response>>)]
                   /\ nsets' = [nsets EXCEPT ![entity] = @ + 1]
                   /\ exch' = [exch EXCEPT ![entity].set = <<response>>,
                                           ![entity].handler =
                                               IF Invoked(item.request) THEN <<hres>> ELSE <<>>]
                   /\ UNCHANGED opc
    /\ requests' = Tail(requests)
    /\ UNCHANGED <<backlog, accepted, cmdSpawn, cmdDespawn, todo, probe,
                   wpc, cur, result, teardown, reqSlot, reads, lastRead, pubs, takes, writes,
                   wrote, pairVars>>

\* The second loop is over.
DispatchEnd ==
    /\ UNCHANGED <<pairVars, hslot, alive, routerVars, libVars>>
    /\ opc = "dispatch"
    /\ requests = <<>>
    /\ opc' = "idle"
    /\ UNCHANGED <<backlog, accepted, handles, cmdSpawn, cmdDespawn, todo, probe, requests,
                   workerVars, histVars>>

\* ---------------------------------------------------------------- specification
Next ==
    \/ ClientConnect
    \/ \E sys \in Systems : StartSystem(sys)
    \/ ApplyCommands
    \/ AcceptOne
    \/ AcceptWouldBlock
    \/ AcceptFatal
    \/ \E h \in Conns : ReapPoll(h)
    \/ ReapEnd
    \/ \E h \in Conns : CollectProbe(h)
    \/ CollectTake
    \/ CollectEnd
    \/ \E hres \in HandlerResults, effect \in HandlerEffects : Dispatch(hres, effect)
    \/ DispatchEnd
    \/ \E c \in Conns, kind \in RequestKinds, path \in RequestPaths :
            WorkerReadRequest(c, kind, path)
    \/ \E c \in Conns : WorkerReadNone(c)
    \/ \E c \in Conns : WorkerReadError(c)
    \/ \E c \in Conns : WorkerPoll(c)
    \/ \E c \in Conns : WorkerTake(c)
    \/ \E c \in Conns, outcome \in IoOutcomes : WorkerWrite(c, outcome)
    \/ \E c \in Conns, outcome \in IoOutcomes : WorkerClose(c, outcome)

Spec == Init /\ [][Next]_vars

\* ---------------------------------------------------------------- the server under its scheduling
\* The same server with what its scheduling guarantees. The Bevy schedule runs
\* every system on every tick and applies the queued Commands between ticks:
\* from idle, Respond is started again and again and Commands are applied
\* (strong fairness, since the three systems take turns). A system that was
\* started runs its loops to their end. A worker is a thread of the task pool:
\* its response wait polls again and again and goes on once it sees a response.
LiveClientConnect ==
    /\ backlog + accepted < LiveConns
    /\ ClientConnect

LiveNext ==
    \/ LiveClientConnect
    \/ \E sys \in Systems : StartSystem(sys)
    \/ ApplyCommands
    \/ AcceptOne
    \/ AcceptWouldBlock
    \/ AcceptFatal
    \/ \E h \in Conns : ReapPoll(h)
    \/ ReapEnd
    \/ \E h \in Conns : CollectProbe(h)
    \/ CollectTake
    \/ CollectEnd
    \/ \E hres \in HandlerResults, effect \in HandlerEffects : Dispatch(hres, effect)
    \/ DispatchEnd
    \/ \E c \in Conns, kind \in RequestKinds, path \in RequestPaths :
            WorkerReadRequest(c, kind, path)
    \/ \E c \in Conns : WorkerReadNone(c)
    \/ \E c \in Conns : WorkerReadError(c)
    \/ \E c \in Conns : WorkerPoll(c)
    \/ \E c \in Conns : WorkerTake(c)
    \/ \E c \in Conns, outcome \in IoOutcomes : WorkerWrite(c, outcome)
    \/ \E c \in Conns, outcome \in IoOutcomes : WorkerClose(c, outcome)

Scheduling ==
    /\ \A sys \in Systems : SF_vars(StartSystem(sys))
    /\ SF_vars(ApplyCommands)
    /\ WF_vars(AcceptOne \/ AcceptWouldBlock)
    /\ WF_vars(\E h \in Conns : ReapPoll(h))
    /\ WF_vars(ReapEnd)
    /\ WF_vars(\E h \in Conns : CollectProbe(h))
    /\ WF_vars(CollectTake)
    /\ WF_vars(CollectEnd)
    /\ WF_vars(\E hres \in HandlerResults, effect \in HandlerEffects : Dispatch(hres, effect))
    /\ WF_vars(DispatchEnd)
    /\ \A c \in Conns : WF_vars(WorkerPoll(c)) /\ WF_vars(WorkerTake(c))

LiveSpec == Init /\ [][LiveNext]_vars /\ Scheduling

\* ---------------------------------------------------------------- router alone
\* handle applied to a tree and a request path, outside the server.
RouterInit ==
    /\ ServerInit
    /\ BuildIdle
    /\ PathIdle
    /\ UnitIdle
    /\ FinalIdle
    /\ DescentIdle
    /\ rtree \in RouterTrees
    /\ ruri \in RouterUris
    /\ rgiven = <<>>
    /\ rout = NotRouted

\* handle(world, "/", request) on the root of the tree; hres is what the handler
\* function returns if one is called.
RouterHandle(hres) ==
    /\ rout = NotRouted
    /\ rgiven' = <<hres>>
    /\ rout' = HandleResult(rtree, RootPath, ruri, hres)
    /\ UNCHANGED <<serverVars, libVars, rtree, ruri>>

RouterNext == \E hres \in HandlerResults : RouterHandle(hres)

RouterSpec == RouterInit /\ [][RouterNext]_vars

\* ---------------------------------------------------------------- construction alone
\* A router tree is built by calls of new and add_child, as in
\* `new("/", f).add_child(new("a", g).add_child(new("b", h)))`, and handed to
\* HttpServerResource::new. breg is the stack of the values under construction.
RECURSIVE NodeCount(_)
NodeCount(node) ==
    LET RECURSIVE Sum(_)
        Sum(i) == IF i = 0 THEN 0 ELSE NodeCount(node.children[i]) + Sum(i - 1)
    IN  1 + Sum(Len(node.children))

RECURSIVE HeldCount(_)
HeldCount(held) == IF held = <<>> THEN 0 ELSE NodeCount(Head(held)) + HeldCount(Tail(held))

BuildInit ==
    /\ ServerInit
    /\ RouterIdle
    /\ PathIdle
    /\ UnitIdle
    /\ FinalIdle
    /\ DescentIdle
    /\ breg = <<>>
    /\ bserver = <<>>
    /\ bpanic = "none"

\* HttpRequestHandler::new(name, f)
BuildNew(name) ==
    /\ bpanic = "none"
    /\ bserver = <<>>
    /\ HeldCount(breg) < MaxNodes
    /\ breg' = Append(breg, Leaf(name, "f"))
    /\ UNCHANGED <<serverVars, routerVars, descVars, pathVars, unitVars, finalVars, bserver, bpanic>>

\* parent.add_child(child) on the two values constructed last.
BuildAddChild ==
    /\ bpanic = "none"
    /\ Len(breg) >= 2
    /\ LET parent == breg[Len(breg) - 1]
           child == breg[Len(breg)]
           added == add_child(parent, child)
       IN  IF added.panic
           THEN bpanic' = "add_child" /\ UNCHANGED breg
           ELSE /\ breg' = Append(SubSeq(breg, 1, Len(breg) - 2), added.node)
                /\ UNCHANGED bpanic
    /\ UNCHANGED <<serverVars, routerVars, descVars, pathVars, unitVars, finalVars, bserver>>

\* HttpServerResource::new(listener, root) on the one value constructed.
BuildServer ==
    /\ bpanic = "none"
    /\ bserver = <<>>
    /\ Len(breg) = 1
    /\ LET made_server == HttpServerResourceNew(breg[1])
       IN  IF made_server.panic
           THEN bpanic' = "server_new" /\ UNCHANGED <<breg, bserver>>
           ELSE /\ bserver' = made_server.server
                /\ breg' = <<>>
                /\ UNCHANGED bpanic
    /\ UNCHANGED <<serverVars, routerVars, descVars, pathVars, unitVars, finalVars>>

BuildNext ==
    \/ \E name \in BuildNames : BuildNew(name)
    \/ BuildAddChild
    \/ BuildServer

BuildSpec == BuildInit /\ [][BuildNext]_vars

\* ---------------------------------------------------------------- HttpPath alone
\* Two path strings are converted to keys; the first key is then pushed to,
\* compared with the second and printed, in any order. pout records the last
\* call, its arguments and what it returned.
PathStrings ==
    { StrEmpty, StrRoot,
      <<"/", "a">>, <<"/", "b">>, <<"/", "a", "b">>,
      <<"/", "a", "/", "b">>, <<"/", "a", "/", "c">>, <<"/", "a", "/", "b", "/", "c">>,
      <<"a">>, <<"a", "/", "b">> }

PathSegments == { <<"a">>, <<"b">> }

PathInit ==
    /\ ServerInit
    /\ RouterIdle
    /\ BuildIdle
    /\ UnitIdle
    /\ FinalIdle
    /\ DescentIdle
    /\ pa \in PathStrings
    /\ pb \in PathStrings
    /\ ka = <<>>
    /\ kb = <<>>
    /\ pout = NoPathOp

\* HttpPath::from(pa), HttpPath::from(pb)
PathParse ==
    /\ pout.op = "none"
    /\ ka' = PathFrom(pa)
    /\ kb' = PathFrom(pb)
    /\ pout' = [NoPathOp EXCEPT !.op = "from", !.a = ka', !.b = kb']
    /\ UNCHANGED <<serverVars, routerVars, descVars, buildVars, unitVars, finalVars, pa, pb>>

\* ka.push(seg)
PathPushStep(seg) ==
    /\ pout.op # "none"
    /\ Len(ka) < MaxParts
    /\ ka' = PathPush(ka, seg)
    /\ pout' = [NoPathOp EXCEPT !.op = "push", !.a = ka, !.b = <<seg>>]
    /\ UNCHANGED <<serverVars, routerVars, descVars, buildVars, unitVars, finalVars, pa, pb, kb>>

\* ka.starts_with(&kb)
PathCompare ==
    /\ pout.op # "none"
    /\ pout' = [NoPathOp EXCEPT !.op = "starts_with", !.a = ka, !.b = kb,
                                !.holds = PathStartsWith(ka, kb)]
    /\ UNCHANGED <<serverVars, routerVars, descVars, buildVars, unitVars, finalVars, pa, pb, ka, kb>>

\* ka.to_string()
PathPrint ==
    /\ pout.op # "none"
    /\ pout' = [NoPathOp EXCEPT !.op = "to_string", !.a = ka,
                                !.text = PathToString(ka)]
    /\ UNCHANGED <<serverVars, routerVars, descVars, buildVars, unitVars, finalVars, pa, pb, ka, kb>>

PathNext ==
    \/ PathParse
    \/ \E seg \in PathSegments : PathPushStep(seg)
    \/ PathCompare
    \/ PathPrint

PathSpec == PathInit /\ [][PathNext]_vars

\* ---------------------------------------------------------------- handoff slots alone
\* One HttpConnectionServer and one HttpConnectionTask over the same two slots,
\* as the unit tests make them; the six slot methods are called in any order.
\* uout records the last call, its argument and what it returned. A panic ends
\* the run.
SlotValues == { "v1", "v2", "v3", "v4" }

\* Option<T>
SlotOptions == { <<>> } \cup { <<v>> : v \in SlotValues }

SlotPanics == { "panic_take_request", "panic_take_response" }

SlotInit ==
    /\ ServerInit
    /\ RouterIdle
    /\ BuildIdle
    /\ PathIdle
    /\ FinalIdle
    /\ DescentIdle
    /\ ureq \in SlotOptions
    /\ uresp \in SlotOptions
    /\ uout = NoCall

\* HttpConnectionServer::set_request(request)
UnitSetRequest(value) ==
    /\ uout.op \notin SlotPanics
    /\ ureq' = SlotAfterSet(value)
    /\ uout' = [NoCall EXCEPT !.op = "set_request", !.arg = value]
    /\ UNCHANGED <<serverVars, routerVars, descVars, buildVars, pathVars, finalVars, uresp>>

\* HttpConnectionServer::has_response()
UnitHasResponse ==
    /\ uout.op \notin SlotPanics
    /\ uout' = [NoCall EXCEPT !.op = "has_response", !.holds = SlotHas(uresp)]
    /\ UNCHANGED <<serverVars, routerVars, descVars, buildVars, pathVars, finalVars, ureq, uresp>>

\* HttpConnectionServer::take_response()
UnitTakeResponse ==
    /\ uout.op \notin SlotPanics
    /\ IF TakePanics(uresp)
       THEN /\ uout' = [NoCall EXCEPT !.op = "panic_take_response"]
            /\ UNCHANGED uresp
       ELSE /\ uout' = [NoCall EXCEPT !.op = "take_response", !.ret = uresp]
            /\ uresp' = RespSlotAfterTake(uresp)
    /\ UNCHANGED <<serverVars, routerVars, descVars, buildVars, pathVars, finalVars, ureq>>

\* HttpConnectionTask::set_response(response)
UnitSetResponse(value) ==
    /\ uout.op \notin SlotPanics
    /\ uresp' = SlotAfterSet(value)
    /\ uout' = [NoCall EXCEPT !.op = "set_response", !.arg = value]
    /\ UNCHANGED <<serverVars, routerVars, descVars, buildVars, pathVars, finalVars, ureq>>

\* HttpConnectionTask::has_request()
UnitHasRequest ==
    /\ uout.op \notin SlotPanics
    /\ uout' = [NoCall EXCEPT !.op = "has_request", !.holds = SlotHas(ureq)]
    /\ UNCHANGED <<serverVars, routerVars, descVars, buildVars, pathVars, finalVars, ureq, uresp>>

\* HttpConnectionTask::take_request()
UnitTakeRequest ==
    /\ uout.op \notin SlotPanics
    /\ IF TakePanics(ureq)
       THEN /\ uout' = [NoCall EXCEPT !.op = "panic_take_request"]
            /\ UNCHANGED ureq
       ELSE /\ uout' = [NoCall EXCEPT !.op = "take_request", !.ret = ureq]
            /\ ureq' = SlotAfterTake(ureq)
    /\ UNCHANGED <<serverVars, routerVars, descVars, buildVars, pathVars, finalVars, uresp>>

SlotNext ==
    \/ \E value \in SlotOptions : UnitSetRequest(value)
    \/ UnitHasResponse
    \/ UnitTakeResponse
    \/ \E value \in SlotOptions : UnitSetResponse(value)
    \/ UnitHasRequest
    \/ UnitTakeRequest

SlotSpec == SlotInit /\ [][SlotNext]_vars

\* ---------------------------------------------------------------- finalize_response alone
\* finalize_response applied to a request and to a response as a handler
\* function may return it, with any of its headers set or not.
FinalizeKinds == { <<v, h>> : v \in {"1.0", "1.1"}, h \in ConnHdrs }

FinalizeRequests == { Request(1, 1, kind, <<"/", "a">>) : kind \in FinalizeKinds }

FinalizeBodies == { <<>>, <<"p">>, <<"p", "q">> }

FinalizeResponses ==
    { [origin |-> 1, seq |-> 1, status |-> "200",
       connection |-> h, keep_alive |-> hint,
       content_length |-> cl, content_type |-> ct, body |-> b] :
        h \in ConnHdrs, hint \in {"none", "timeout=5"},
        cl \in {"none", "0", "5"}, ct \in {"none", PlainContentType},
        b \in FinalizeBodies }

FinalizeInit ==
    /\ ServerInit
    /\ RouterIdle
    /\ BuildIdle
    /\ PathIdle
    /\ UnitIdle
    /\ DescentIdle
    /\ freq \in { <<r>> : r \in FinalizeRequests }
    /\ fresp \in { <<r>> : r \in FinalizeResponses }
    /\ fout = <<>>

\* finalize_response(&request, &mut response)
FinalizeStep ==
    /\ fout = <<>>
    /\ fout' = << finalize_response(freq[1], fresp[1]) >>
    /\ UNCHANGED <<serverVars, routerVars, descVars, buildVars, pathVars, unitVars, freq, fresp>>

FinalizeNext == FinalizeStep

FinalizeSpec == FinalizeInit /\ [][FinalizeNext]_vars

\* ---------------------------------------------------------------- handle, call by call
\* One call of the root's handle followed through its recursion: each step is
\* one execution of the body of handle, on the node and with the `path` string
\* the caller passed.
DescentTrees ==
    { Node(StrRoot, "root", << Node(<<"a">>, "a1", << Leaf(<<"c">>, "c1") >>),
                               Leaf(<<"b">>, "b1") >>),
      Node(StrRoot, "root", << Node(<<>>, "e1", << Leaf(<<"x">>, "x1") >>),
                               Leaf(<<"x">>, "x2") >>),
      Node(StrRoot, "root", << Leaf(<<"a", "b">>, "ab1") >>),
      Node(StrRoot, "root", << Leaf(<<"a">>, "a1"),
                               Node(<<"b">>, "b1", << Leaf(<<"a">>, "a2") >>) >>),
      Node(StrRoot, "root",
           << Node(<<"a">>, "a1", << Node(<<"c">>, "c1", << Leaf(<<"a">>, "a2") >>) >>) >>) }

DescentUris ==
    { <<"/">>, <<"/", "a">>, <<"/", "b">>, <<"/", "x">>, <<"/", "a", "b">>,
      <<"/", "a", "/", "c">>, <<"/", "a", "/", "x">>, <<"/", "a", "/", "c", "/", "a">>,
      <<"/", "b", "/", "a">>, <<"/", "/">>, <<"/", "/", "x">> }

\* `candidate = current_path.clone(); candidate.push(child.dir_name())`
HandleCandidate(node, path, i) == PathPush(PathFrom(path), node.children[i].dir_name)

\* The children for which `request_path.starts_with(&candidate)`.
HandleHits(node, path, uriPath) ==
    {i \in 1..Len(node.children) :
        PathStartsWith(PathFrom(uriPath), HandleCandidate(node, path, i))}

DescentInit ==
    /\ ServerInit
    /\ RouterIdle
    /\ BuildIdle
    /\ PathIdle
    /\ UnitIdle
    /\ FinalIdle
    /\ hnode \in DescentTrees
    /\ hpath = RootPath
    /\ hcand = <<>>
    /\ hreq \in DescentUris
    /\ hout = <<>>

\* A child matches: `return child.handle(world, candidate.to_string().as_str(), request)`.
HandleDescend ==
    /\ hout = <<>>
    /\ HandleHits(hnode, hpath, hreq) # {}
    /\ LET i == FirstMatch(HandleHits(hnode, hpath, hreq))
           candidate == HandleCandidate(hnode, hpath, i)
       IN  /\ hnode' = hnode.children[i]
           /\ hcand' = <<candidate>>
           /\ hpath' = PathToString(candidate)
    /\ UNCHANGED <<serverVars, routerVars, buildVars, pathVars, unitVars, finalVars,
                   hreq, hout>>

\* No child matches: NOT_FOUND or the node's own function.
HandleAnswer ==
    /\ hout = <<>>
    /\ HandleHits(hnode, hpath, hreq) = {}
    /\ hout' = << OwnFunction(hnode, PathFrom(hpath), PathFrom(hreq)) >>
    /\ UNCHANGED <<serverVars, routerVars, buildVars, pathVars, unitVars, finalVars,
                   hnode, hpath, hcand, hreq>>

DescentNext ==
    \/ HandleDescend
    \/ HandleAnswer

DescentSpec == DescentInit /\ [][DescentNext]_vars

\* ---------------------------------------------------------------- claims

\* C1: per connection, the worker publishes request N+1 only after it has taken
\* response N and written it: the publishes are never more than one ahead of the
\* writes, and takes lie between the two, so between two consecutive publishes
\* there is exactly one take_response and one send_response.
C1_PublishAfterWrite ==
    \A c \in Conns :
        /\ writes[c] <= takes[c]
        /\ takes[c] <= pubs[c]
        /\ pubs[c] <= writes[c] + 1
        /\ wpc[c] = "read" => pubs[c] = takes[c] /\ takes[c] = writes[c]

\* A worker has published its second request.
C1_Witness == \E c \in Conns : pubs[c] = 2 /\ writes[c] = 1

C3_NoOverwrite ==
    [][\A c \in Conns :
          /\ pubs'[c] # pubs[c] => reqSlot[c] = <<>>
          /\ nsets'[c] # nsets[c] => respSlot[c] = <<>>]_vars

\* A second request and a second response have been set on one connection.
C3_Witness == \E c \in Conns : pubs[c] = 2 /\ nsets[c] = 2

\* C4: the response computed for a request taken from handle H goes into H's
\* response slot and no other: every queued request sits beside the entity it was
\* taken from, and every response in a slot, in a worker's hands or written by a
\* worker was produced from a request of that worker's own connection.
C4_ResponseToOwnHandle ==
    /\ \A i \in 1..Len(requests) : requests[i].entity = requests[i].request.conn
    /\ \A c \in Conns :
        /\ respSlot[c] # <<>> => respSlot[c][1].origin = c
        /\ cur[c] # <<>> => cur[c][1].origin = c
        /\ exch[c].written # <<>> => exch[c].written[1].origin = c

\* One Respond pass has set a response for each of two handles.
C4_Witness ==
    /\ opc = "dispatch"
    /\ requests = <<>>
    /\ \A c \in {1, 2} : respSlot[c] # <<>> /\ respSlot[c][1].origin = c

\* C5: each request read is published exactly once, and the response set into the
\* response slot is the one the worker takes and writes, unmodified and once.
C5_PublishOnceWriteAsSet ==
    \A c \in Conns :
        /\ pubs[c] = reads[c] - (IF lastRead[c] \in {"closed", "error"} THEN 1 ELSE 0)
        /\ reqSlot[c] # <<>> => reqSlot[c] = exch[c].request
        /\ respSlot[c] # <<>> => respSlot[c] = exch[c].set /\ wpc[c] \in {"wait", "take"}
        /\ cur[c] # <<>> => cur[c] = exch[c].set
        /\ exch[c].written # <<>> => exch[c].written = exch[c].set
        /\ writes[c] <= nsets[c]
        /\ nsets[c] <= pubs[c]

\* A worker has written the response that was set for its second request.
C5_Witness ==
    \E c \in Conns : writes[c] = 2 /\ exch[c].written # <<>> /\ exch[c].written[1].seq = 2

\* The exchange of connection c was: a request with Connection header reqHdr,
\* answered by a response with Connection header respHdr, handed to send_response.
Exchanged(c, reqHdr, respHdr) ==
    /\ exch[c].request # <<>>
    /\ exch[c].request[1].connection = reqHdr
    /\ exch[c].written # <<>>
    /\ exch[c].written[1].connection = respHdr

\* C6: keep-alive denial. When the request carries Connection: keep-alive and the
\* response taken carries Connection: close, then after send_response the worker
\* is at the teardown (a send_response error of another kind ends run with that
\* error instead), it has read exactly once per exchange, and from the teardown
\* or the end of run no step reads again.
C6_KeepAliveDenied ==
    [][\A c \in Conns :
          /\ Exchanged(c, "keep-alive", "close")' =>
                /\ wpc'[c] \in {"close", "done"}
                /\ wpc'[c] = "done" => wrote'[c] = "other" /\ result'[c].cause = "write"
                /\ reads'[c] = writes'[c]
          /\ wpc[c] \in {"close", "done"} =>
                /\ wpc'[c] \in {"close", "done"}
                /\ reads'[c] = reads[c]]_vars

\* A keep-alive request got a Connection: close response written, and the worker
\* is at the teardown after that single exchange.
C6_Witness ==
    \E c \in Conns :
        Exchanged(c, "keep-alive", "close") /\ wpc[c] = "close" /\ reads[c] = 1
            /\ wrote[c] = "ok"

\* The handler function was invoked for the exchange of c and returned 200 with
\* no Connection header, for an HTTP/1.1 request without Connection header.
PlainExchange(c) ==
    /\ exch[c].request # <<>>
    /\ exch[c].request[1].version = "1.1"
    /\ exch[c].request[1].connection = "none"
    /\ exch[c].handler # <<>>
    /\ exch[c].handler[1].ok
    /\ exch[c].handler[1].status = "200"
    /\ exch[c].handler[1].connection = "none"

\* C7: keep-alive scenario. For an HTTP/1.1 request without Connection header
\* whose handler returns 200 without Connection header, the response set into
\* the slot carries Connection: keep-alive and the Keep-Alive hint, and once
\* send_response has written it the worker is back at read_request.
C7_KeepAliveGranted ==
    \A c \in Conns :
        PlainExchange(c) =>
            /\ exch[c].set # <<>>
            /\ exch[c].set[1].connection = "keep-alive"
            /\ exch[c].set[1].keep_alive = KeepAliveHint
            /\ exch[c].written # <<>> /\ wrote[c] = "ok" => wpc[c] = "read"

\* Such a response has been written and the worker is reading again.
C7_Witness ==
    \E c \in Conns :
        PlainExchange(c) /\ exch[c].written # <<>> /\ wrote[c] = "ok" /\ wpc[c] = "read"

\* C8 as stated: after read_request returned None, run returns success.
C8_Original ==
    \A c \in Conns :
        lastRead[c] = "closed" /\ wpc[c] = "done" => result[c] = RunOk

\* C8 amended: after read_request returned None the worker has published nothing
\* for that read, is not waiting for a response, and is at the teardown or has
\* returned; run returns success unless close() failed with an error of another
\* kind than peer-closed, which run returns.
C8_ReadNone ==
    \A c \in Conns :
        lastRead[c] = "closed" =>
            /\ pubs[c] = reads[c] - 1
            /\ writes[c] = pubs[c]
            /\ reqSlot[c] = <<>> /\ respSlot[c] = <<>>
            /\ wpc[c] \in {"close", "done"}
            /\ wpc[c] = "done" =>
                  \/ teardown[c] \in {"ok", "aborted"} /\ result[c] = RunOk
                  \/ teardown[c] = "other" /\ result[c] = CloseErrorResult("other")

\* run has returned success after read_request returned None on a fresh connection.
C8_Witness ==
    \E c \in Conns :
        lastRead[c] = "closed" /\ wpc[c] = "done" /\ result[c] = RunOk /\ pubs[c] = 0

\* C9: after read_request failed, run has returned an error that carries the peer
\* address and the status, nothing was published for that read, and no read,
\* write or teardown followed.
C9_ReadError ==
    \A c \in Conns :
        lastRead[c] = "error" =>
            /\ wpc[c] = "done"
            /\ result[c].state = "err"
            /\ result[c].cause = "read"
            /\ result[c].peer
            /\ result[c].detail = "400"
            /\ pubs[c] = reads[c] - 1
            /\ writes[c] = pubs[c]
            /\ reqSlot[c] = <<>>

\* run has returned the read error, after one complete exchange.
C9_Witness ==
    \E c \in Conns : lastRead[c] = "error" /\ wpc[c] = "done" /\ writes[c] = 1

\* C10: a peer-closed send_response failure sends the worker to the teardown
\* without another read and without a failure; a peer-closed close() failure
\* makes run return success; any other send_response or close() failure makes
\* run return an error.
C10_PeerClosedNotAFailure ==
    \A c \in Conns :
        /\ wrote[c] = "aborted" =>
              wpc[c] = "close" /\ result[c] = Running /\ reads[c] = writes[c]
        /\ wrote[c] = "other" =>
              wpc[c] = "done" /\ result[c] = WriteErrorResult("other")
        /\ teardown[c] = "aborted" => wpc[c] = "done" /\ result[c] = RunOk
        /\ teardown[c] = "other" =>
              wpc[c] = "done" /\ result[c] = CloseErrorResult("other")
        /\ teardown[c] = "ok" => wpc[c] = "done" /\ result[c] = RunOk

\* A peer-closed write failure was followed by a peer-closed teardown failure
\* and run returned success.
C10_Witness ==
    \E c \in Conns :
        writes[c] >= 1 /\ teardown[c] = "aborted" /\ result[c] = RunOk
            /\ reads[c] = writes[c]

\* C11: on both terminal outcomes of run(), success and error, connection.close()
\* (flush, then shutdown of both directions) has been executed before run returned.
C11_TeardownBeforeReturn ==
    \A c \in Conns :
        wpc[c] = "done" /\ result[c].state \in {"ok", "err"} => teardown[c] # "none"

\* C12: every error value run() returns for a failed read, a failed write or a
\* failed teardown includes the peer address of the connection.
C12_ErrorCarriesPeer ==
    \A c \in Conns : result[c].state = "err" => result[c].peer

\* C13: the response wait has no timeout. As long as no response is set into the
\* response slot of a worker that waits, every step leaves the worker waiting: it
\* does not read, write, tear down or return, and Reap does not queue the
\* despawn of its handle.
C13_WaitsForever ==
    [][\A c \in Conns :
          wpc[c] = "wait" /\ respSlot[c] = <<>> /\ respSlot'[c] = <<>> =>
              /\ wpc'[c] = "wait"
              /\ reads'[c] = reads[c]
              /\ writes'[c] = writes[c]
              /\ teardown'[c] = "none"
              /\ result'[c] = Running
              /\ c \notin cmdDespawn']_vars

\* A Reap pass has polled the handle of a worker that waits on an empty response
\* slot and has left it registered.
C13_Witness ==
    \E c \in Conns :
        /\ wpc[c] = "wait" /\ respSlot[c] = <<>>
        /\ opc = "reap" /\ c \in handles /\ c \notin todo /\ c \notin cmdDespawn

\* C14: Reap queues the despawn of a handle only in the step that polls it and
\* only if its worker has returned; Commands deregister only handles of workers
\* that have returned; a step of the Reap pass changes no slot, no registration
\* and no worker, whatever the state of the worker it polls.
C14_ReapOnlyTerminated ==
    [][/\ \A h \in Conns :
            h \in cmdDespawn' /\ h \notin cmdDespawn =>
                opc = "reap" /\ h \in todo /\ h \notin todo' /\ wpc[h] = "done"
       /\ \A h \in Conns :
            opc = "idle" /\ h \in handles /\ h \notin handles' => wpc[h] = "done"
       /\ opc = "reap" /\ todo' # todo =>
            /\ reqSlot' = reqSlot /\ respSlot' = respSlot
            /\ handles' = handles /\ wpc' = wpc
            /\ \A h \in todo \ todo' : wpc[h] # "done" => h \notin cmdDespawn']_vars

\* A Reap pass has polled two handles: the worker of one has returned and its
\* despawn is queued, the worker of the other is still running and it is left alone.
C14_Witness ==
    /\ opc = "reap" /\ todo = {}
    /\ \E h, g \in handles :
          /\ wpc[h] = "done" /\ h \in cmdDespawn
          /\ wpc[g] \notin {"done", "unborn"} /\ g \notin cmdDespawn

\* C16: an Accept pass ends normally only on would-block, when nothing is pending
\* on the listener; until then each step of the pass accepts one pending
\* connection, and pending connections leave the listener only by being
\* accepted; any other accept error panics, and after the panic nothing is
\* accepted again.
C16_AcceptUntilWouldBlock ==
    [][/\ opc = "accept" => opc' \in {"accept", "idle", "panic_accept"}
       /\ opc = "accept" /\ opc' = "idle" =>
            backlog = 0 /\ backlog' = 0 /\ accepted' = accepted /\ cmdSpawn' = cmdSpawn
       /\ backlog' < backlog =>
            opc = "accept" /\ opc' = "accept" /\ backlog' = backlog - 1
                /\ accepted' = accepted + 1
       /\ opc = "accept" /\ opc' = "panic_accept" =>
            accepted' = accepted /\ backlog' = backlog /\ cmdSpawn' = cmdSpawn
       /\ opc = "panic_accept" => opc' = "panic_accept" /\ accepted' = accepted]_vars

\* One Accept pass has accepted two pending connections and is about to see
\* would-block.
C16_Witness ==
    opc = "accept" /\ backlog = 0 /\ accepted = 2 /\ cmdSpawn = {1, 2}

\* The status the router failed with for the exchange of c: NOT_FOUND for a path
\* no handler serves, the status the invoked handler function returned as Err,
\* "none" if the router did not fail.
RouterFailure(c) ==
    IF exch[c].request[1].path = <<"/", "x">> THEN "404"
    ELSE IF exch[c].handler # <<>> /\ ~exch[c].handler[1].ok THEN exch[c].handler[1].status
    ELSE "none"

C15_OnePairPerConnection ==
    \A c \in Conns :
        /\ made[c] = IF c <= accepted THEN [workers |-> 1, handles |-> 1] ELSE NoneMade
        /\ (c <= accepted) <=> (wpc[c] # "unborn")
        /\ c <= accepted => wslot[c].request \in Conns /\ wslot[c].response \in Conns
        /\ c > accepted =>
              wslot[c] = NoSlots /\ hslot[c] = NoSlots /\ c \notin handles \cup cmdSpawn \cup alive
        /\ c \in handles \cup cmdSpawn => c <= accepted /\ hslot[c] = wslot[c]
        /\ c \in cmdSpawn /\ reads[c] = 0 =>
              reqSlot[hslot[c].request] = <<>> /\ respSlot[hslot[c].response] = <<>>
        /\ \A d \in Conns \ {c} :
              c <= accepted /\ d <= accepted =>
                  /\ wslot[c].request # wslot[d].request
                  /\ wslot[c].response # wslot[d].response

\* Two connections were accepted, both handles are registered, both workers run,
\* and a request sits in the slot of one while the slot of the other is empty.
C15_Witness ==
    /\ accepted = 2 /\ handles = {1, 2}
    /\ wpc[1] = "wait" /\ wpc[2] = "read"
    /\ reqSlot[hslot[1].request] # <<>> /\ reqSlot[hslot[2].request] = <<>>

\* C17: when the handle a request was taken from is deregistered by the time its
\* response is ready, the step of Respond that serves the request sets no slot,
\* does not panic, and leaves the remaining taken requests to be served.
C17_DiscardWhenDeregistered ==
    [][opc = "dispatch" /\ requests # <<>> /\ requests' # requests
            /\ Head(requests).entity \notin handles' =>
          /\ opc' = "dispatch"
          /\ requests' = Tail(requests)
          /\ respSlot' = respSlot
          /\ nsets' = nsets]_vars

\* The nodes of a tree (root, children, grandchildren), each with the segments of
\* its path from the root: the root has the single empty segment.
TreeNodes(tree) ==
    LET root == [node |-> tree, segs |-> << <<>> >>]
        Below(pos) ==
            {[node |-> pos.node.children[i],
              segs |-> Append(pos.segs, pos.node.children[i].dir_name)] :
                i \in 1..Len(pos.node.children)}
        children == Below(root)
    IN  {root} \cup children \cup UNION {Below(pos) : pos \in children}

\* The handler functions of a node and of the nodes below it.
FunctionsOf(node) == {pos.node.function : pos \in TreeNodes(node)}

\* The path string of a node, from its segments.
SegsToStr(segs) ==
    IF Len(segs) = 1 THEN <<"/">>
    ELSE IF Len(segs) = 2 THEN <<"/">> \o segs[2]
    ELSE <<"/">> \o segs[2] \o <<"/">> \o segs[3]

\* p is a segment-wise prefix of q.
IsPrefix(p, q) == Len(p) <= Len(q) /\ \A i \in 1..Len(p) : q[i] = p[i]

\* The children of the node at pos whose candidate path is a segment-wise prefix
\* of the request path.
MatchingChildren(pos, uri) ==
    {i \in 1..Len(pos.node.children) :
        IsPrefix(Append(pos.segs, pos.node.children[i].dir_name), PathFrom(uri))}

\* The lowest index of a set of indices.
Lowest(hits) == CHOOSE k \in hits : \A j \in hits : k <= j

\* C19: first match wins, in the order the children were added. At every node
\* of the tree, handle gives what handle on the first matching child gives,
\* whatever later siblings would give (including NOT_FOUND from the chosen
\* subtree); and when handle was called on the root, any handler function it
\* called belongs to the subtree of the root's first matching child.
C19_FirstMatchWins ==
    /\ \A pos \in TreeNodes(rtree) :
          LET hits == MatchingChildren(pos, ruri)
          IN  hits # {} =>
                Handle(pos.node, SegsToStr(pos.segs), ruri)
                    = Handle(pos.node.children[Lowest(hits)],
                             SegsToStr(Append(pos.segs,
                                              pos.node.children[Lowest(hits)].dir_name)),
                             ruri)
    /\ LET hits == MatchingChildren([node |-> rtree, segs |-> << <<>> >>], ruri)
       IN  rgiven # <<>> /\ hits # {} =>
             /\ \A k \in 1..Len(rout.calls) :
                   rout.calls[k] \in FunctionsOf(rtree.children[Lowest(hits)])
             /\ rout.calls = <<>> => rout.result = NotFound

\* handle was called for "/a/c" on a root whose children are "a" (no children)
\* and then another "a" with a child "c": it went into the first "a" and
\* returned NOT_FOUND without trying the second.
C19_Witness ==
    /\ rtree = Node(StrRoot, "root", << Leaf(<<"a">>, "a1"),
                                        Node(<<"a">>, "a2", << Leaf(<<"c">>, "c1") >>) >>)
    /\ ruri = <<"/", "a", "/", "c">>
    /\ rgiven # <<>>
    /\ rout.calls = <<>>
    /\ rout.result = NotFound

\* C20: at every node of the tree, if no child matches the request path and the
\* node's path is the request path, handle calls the node's own function; and
\* when handle was called on the root, it called at most one function, returned
\* what that function returned, unchanged, and returned NOT_FOUND if it called
\* none.
C20_OwnHandler ==
    /\ \A pos \in TreeNodes(rtree) :
          MatchingChildren(pos, ruri) = {} /\ pos.segs = PathFrom(ruri) =>
              Handle(pos.node, SegsToStr(pos.segs), ruri)
                  = [invoke |-> TRUE, function |-> pos.node.function, status |-> "none"]
    /\ rgiven # <<>> =>
          /\ Len(rout.calls) <= 1
          /\ Len(rout.calls) = 1 => rout.result = rgiven[1]
          /\ Len(rout.calls) = 0 => rout.result = NotFound
          /\ ruri = StrRoot /\ Len(rtree.children) > 0 => rout.calls = <<rtree.function>>

\* handle was called for "/a" on a root whose child "a" has a child "c": the
\* function of "a" was called once and its result returned.
C20_Witness ==
    /\ rtree = Node(StrRoot, "root", << Node(<<"a">>, "a1", << Leaf(<<"c">>, "c1") >>) >>)
    /\ ruri = <<"/", "a">>
    /\ rgiven # <<>>
    /\ rout.calls = <<"a1">>
    /\ rout.result = rgiven[1]

\* C21: at every node of the tree, if no child matches the request path and the
\* node's path differs from the request path, handle gives NOT_FOUND and calls no
\* function; and when handle was called on the root for a request path that is
\* the path of no node, it called no handler function and returned NOT_FOUND.
C21_NotFound ==
    /\ \A pos \in TreeNodes(rtree) :
          MatchingChildren(pos, ruri) = {} /\ pos.segs # PathFrom(ruri) =>
              Handle(pos.node, SegsToStr(pos.segs), ruri)
                  = [invoke |-> FALSE, function |-> "none", status |-> "404"]
    /\ rgiven # <<>> /\ (\A pos \in TreeNodes(rtree) : pos.segs # PathFrom(ruri)) =>
          rout.calls = <<>> /\ rout.result = NotFound

\* handle was called for "/c" on a root with children "a" and "b", with a handler
\* result at hand that is not NOT_FOUND: nothing was called, NOT_FOUND returned.
C21_Witness ==
    /\ rtree = Node(StrRoot, "root", << Leaf(<<"a">>, "a1"), Leaf(<<"b">>, "b1") >>)
    /\ ruri = <<"/", "c">>
    /\ rgiven # <<>> /\ rgiven[1].ok
    /\ rout.calls = <<>>
    /\ rout.result = NotFound

\* The nodes below a node, at any depth.
RECURSIVE Descendants(_)
Descendants(node) ==
    UNION {{node.children[i]} \cup Descendants(node.children[i]) :
              i \in 1..Len(node.children)}

\* C22: no tree under construction and no tree handed to the server contains a
\* non-root node whose name contains "/"; an add_child call given such a node
\* panics, at construction, and the node is in no tree.
C22_NoSeparatorBelowRoot ==
    /\ \A i \in 1..Len(breg) :
          \A n \in Descendants(breg[i]) : ~Contains(n.dir_name, Sep)
    /\ \A i \in 1..Len(bserver) :
          \A n \in Descendants(bserver[i]) : ~Contains(n.dir_name, Sep)
    /\ bpanic = "add_child" => Contains(breg[Len(breg)].dir_name, Sep)

\* add_child was called on a root that has a child already, with a node named
\* "a/b", and panicked.
C22_Witness ==
    /\ bpanic = "add_child"
    /\ Len(breg) = 2
    /\ breg[1] = Node(StrRoot, "f", << Leaf(<<"a">>, "f") >>)
    /\ breg[2].dir_name = <<"a", "/", "b">>

\* C23: every HttpServerResource that exists has a root named "/";
\* HttpServerResource::new on a router with any other root name panics and no
\* HttpServerResource exists.
C23_RootNamedSlash ==
    /\ \A i \in 1..Len(bserver) : bserver[i].dir_name = StrRoot
    /\ bpanic = "server_new" => bserver = <<>> /\ breg[1].dir_name # StrRoot

\* HttpServerResource::new was called on a tree whose root is named "a" and
\* panicked.
C23_Witness ==
    /\ bpanic = "server_new"
    /\ breg = << Node(<<"a">>, "f", << Leaf(<<"b">>, "f") >>) >>

\* C24: A.starts_with(B) is true exactly when A has at least as many parts as
\* B and the parts of B equal the first parts of A pairwise; it is true of a
\* key and itself, false of Key("") and Key("/"), false of Key("/a/b") and
\* Key("/a/c").
C24_StartsWith ==
    pout.op = "starts_with" =>
        /\ pout.holds = IsPrefix(pout.b, pout.a)
        /\ pout.a = pout.b => pout.holds
        /\ pout.a = PathFrom(StrEmpty) /\ pout.b = PathFrom(StrRoot) => ~pout.holds
        /\ pout.a = PathFrom(<<"/", "a", "/", "b">>)
             /\ pout.b = PathFrom(<<"/", "a", "/", "c">>) => ~pout.holds

\* Key("/a/b") was compared with Key("/a/c").
C24_Witness ==
    /\ pout.op = "starts_with"
    /\ pa = <<"/", "a", "/", "b">>
    /\ pb = <<"/", "a", "/", "c">>
    /\ pout.a = PathFrom(pa)
    /\ pout.b = PathFrom(pb)
    /\ ~pout.holds

\* C25 as stated: Key(P).starts_with(Key("")) is true of the empty P alone.
C25_Original ==
    pout.op = "starts_with" /\ pout.b = <<>> => (pout.holds <=> pout.a = <<>>)

\* C25: the empty key is a prefix of every key, Key(P).starts_with(Key(""))
\* is true for every P; and Key("") starts with no key but the empty one.
C25_EmptyIsPrefixOfAll ==
    pout.op = "starts_with" =>
        /\ pout.b = <<>> => pout.holds
        /\ pout.a = <<>> => (pout.holds <=> pout.b = <<>>)

\* Key("/a/b") was compared with Key("") and starts with it.
C25_Witness ==
    /\ pout.op = "starts_with"
    /\ pa = <<"/", "a", "/", "b">>
    /\ pb = StrEmpty
    /\ pout.a = PathFrom(pa)
    /\ pout.b = <<>>
    /\ pout.holds

\* C26: a non-empty path string converted to a key and printed, with nothing
\* pushed in between, is printed as it was given.
C26_RoundTrip ==
    pout.op = "to_string" /\ pout.a = PathFrom(pa) /\ pa # StrEmpty => pout.text = pa

\* C27: on either slot, a set with a value leaves that value in the slot, has
\* reports whether the slot holds a value, a take that returns returns exactly
\* what the slot held and leaves the slot empty, and no other call changes the
\* slot: so after set(v) has is true, the next take returns v, and has is then
\* false.
C27_SetHasTake ==
    [][ /\ uout'.op = "set_response" /\ uout'.arg # <<>> => uresp' = uout'.arg
        /\ uout'.op = "set_request" /\ uout'.arg # <<>> => ureq' = uout'.arg
        /\ uout'.op = "has_response" => (uout'.holds <=> uresp # <<>>) /\ uresp' = uresp
        /\ uout'.op = "has_request" => (uout'.holds <=> ureq # <<>>) /\ ureq' = ureq
        /\ uout'.op = "take_response" => uout'.ret = uresp /\ uresp # <<>> /\ uresp' = <<>>
        /\ uout'.op = "take_request" => uout'.ret = ureq /\ ureq # <<>> /\ ureq' = <<>>
        /\ uout'.op \in {"set_request", "has_request", "take_request"} => uresp' = uresp
        /\ uout'.op \in {"set_response", "has_response", "take_response"} => ureq' = ureq
      ]_vars

\* take_response has just returned "v2" and left the response slot empty.
C27_Witness ==
    /\ uout.op = "take_response"
    /\ uout.ret = <<"v2">>
    /\ uresp = <<>>

\* C28: a take on an empty slot panics, never returns, and leaves the slot
\* empty; a take returns only from a slot that holds a value.
C28_TakeEmptyPanics ==
    [][ /\ uout'.op \in {"take_response", "panic_take_response"} =>
              /\ uresp = <<>> => uout'.op = "panic_take_response" /\ uresp' = <<>>
              /\ uresp # <<>> => uout'.op = "take_response"
        /\ uout'.op \in {"take_request", "panic_take_request"} =>
              /\ ureq = <<>> => uout'.op = "panic_take_request" /\ ureq' = <<>>
              /\ ureq # <<>> => uout'.op = "take_request"
      ]_vars

\* take_request was called on an empty request slot and panicked.
C28_Witness ==
    /\ uout.op = "panic_take_request"
    /\ uout.ret = <<>>
    /\ ureq = <<>>

\* The request asked for a persistent connection and the response as the
\* handler returned it does not deny it.
Persistent == keep_alive_requested(freq[1]) /\ ~keep_alive_denied(fresp[1])

\* C29: if the request asked for a persistent connection and the response did
\* not deny it, finalize adds Connection: keep-alive and the Keep-Alive hint
\* where absent; otherwise it adds Connection: close where absent and no
\* Keep-Alive; a Connection or Keep-Alive header the response carries already
\* is never changed.
C29_ConnectionHeader ==
    fout # <<>> =>
        /\ Persistent /\ fresp[1].connection = "none" => fout[1].connection = "keep-alive"
        /\ Persistent /\ fresp[1].keep_alive = "none" => fout[1].keep_alive = KeepAliveHint
        /\ ~Persistent /\ fresp[1].connection = "none" => fout[1].connection = "close"
        /\ ~Persistent => fout[1].keep_alive = fresp[1].keep_alive
        /\ fresp[1].connection # "none" => fout[1].connection = fresp[1].connection
        /\ fresp[1].keep_alive # "none" => fout[1].keep_alive = fresp[1].keep_alive

\* An HTTP/1.1 request without Connection header and a response without
\* Connection and Keep-Alive headers: both were added.
C29_Witness ==
    /\ fout # <<>>
    /\ freq[1].version = "1.1"
    /\ freq[1].connection = "none"
    /\ fresp[1].connection = "none"
    /\ fresp[1].keep_alive = "none"
    /\ fout[1].connection = "keep-alive"
    /\ fout[1].keep_alive = KeepAliveHint

\* C30: after finalize the response carries Content-Length and Content-Type:
\* a missing Content-Length is the size of the body, a missing Content-Type is
\* the default, and one the response carries already is unchanged, as is the
\* body.
C30_LengthAndType ==
    fout # <<>> =>
        /\ fout[1].content_length # "none"
        /\ fout[1].content_type # "none"
        /\ fresp[1].content_length = "none" =>
              fout[1].content_length = Decimal(Len(fresp[1].body))
        /\ fresp[1].content_type = "none" => fout[1].content_type = DefaultContentType
        /\ fresp[1].content_length # "none" =>
              fout[1].content_length = fresp[1].content_length
        /\ fresp[1].content_type # "none" => fout[1].content_type = fresp[1].content_type
        /\ fout[1].body = fresp[1].body

\* A response with a body of two and neither header: both were added.
C30_Witness ==
    /\ fout # <<>>
    /\ fresp[1].content_length = "none"
    /\ fresp[1].content_type = "none"
    /\ Len(fresp[1].body) = 2
    /\ fout[1].content_length = "2"
    /\ fout[1].content_type = DefaultContentType

\* Nothing is pending: no connection waits on the listener, no registered
\* handle has a worker that returned or a request in its slot, and no pass has
\* left anything of its own behind (queued Commands, taken requests).
NoPendingWork ==
    /\ backlog = 0
    /\ \A h \in handles : wpc[h] # "done" /\ reqSlot[hslot[h].request] = <<>>
    /\ cmdSpawn = {} /\ cmdDespawn = {}
    /\ probe = NoEntity /\ requests = <<>>

\* A step of the orchestrator: of a system or of the schedule between systems.
OrchestratorStep ==
    <<handles, alive, cmdSpawn, cmdDespawn, opc, todo, probe, requests>>' #
        <<handles, alive, cmdSpawn, cmdDespawn, opc, todo, probe, requests>>

\* C31: with nothing pending, every step of Accept, Reap and Respond leaves the
\* registered handles, both slots of every connection and every worker as they
\* are, queues no Command, and leaves nothing pending, so that any number of
\* passes does the same.
C31_IdempotentWhenIdle ==
    [][ NoPendingWork /\ OrchestratorStep =>
            /\ handles' = handles /\ alive' = alive /\ hslot' = hslot
            /\ reqSlot' = reqSlot /\ respSlot' = respSlot
            /\ wpc' = wpc /\ result' = result /\ cur' = cur
            /\ accepted' = accepted
            /\ NoPendingWork' ]_vars

\* A Respond pass has looked at the handles of two connections whose workers
\* are waiting for a request from the client, and found nothing.
C31_Witness ==
    /\ NoPendingWork
    /\ opc = "collect" /\ todo = {}
    /\ handles = {1, 2}
    /\ wpc[1] = "read" /\ wpc[2] = "read"

\* C32: the step in which the worker of one connection returns Err changes
\* no slot, no other worker, no handle and nothing of the orchestrator; Reap
\* answers a worker that returned Err by queueing the despawn of its handle and
\* going on with its pass, never by a panic; and Reap queues no despawn for a
\* handle whose worker is still running.
C32_FailureIsolation ==
    [][ /\ \A c \in Conns :
             result[c].state = "running" /\ result'[c].state = "err" =>
                 /\ reqSlot' = reqSlot /\ respSlot' = respSlot
                 /\ \A d \in Conns \ {c} :
                        wpc'[d] = wpc[d] /\ result'[d] = result[d] /\ cur'[d] = cur[d]
                 /\ hslot' = hslot /\ alive' = alive
                 /\ orchVars' = orchVars
        /\ \A h \in Conns :
             opc = "reap" /\ h \in todo /\ h \notin todo' /\ result[h].state = "err" =>
                 opc' = "reap" /\ cmdDespawn' = cmdDespawn \cup {h}
        /\ \A d \in Conns :
             result[d].state = "running" /\ d \notin cmdDespawn => d \notin cmdDespawn'
        /\ opc' # "panic_task" ]_vars

\* Reap has queued the despawn of a handle whose worker returned Err, while the
\* worker of another connection waits for the response to a request it
\* published, its handle untouched.
C32_Witness ==
    \E c, d \in Conns :
        /\ result[c].state = "err" /\ c \in cmdDespawn
        /\ opc = "reap" /\ todo = {}
        /\ d \in handles /\ d \notin cmdDespawn
        /\ wpc[d] = "wait" /\ reqSlot[d] # <<>>

\* C33 as stated: the root node is given the empty path as its current path,
\* and from there a request for "/" reaches the root handler.
C33_Original ==
    rout # NotRouted =>
        /\ rout = HandleResult(rtree, StrEmpty, ruri, rgiven[1])
        /\ ruri = StrRoot =>
              HandleResult(rtree, StrEmpty, ruri, rgiven[1]).calls = <<rtree.function>>

\* C33: the root node is given "/" as its current path; from there a request
\* for "/" reaches the root handler and a request for "/a" reaches the first
\* child named "a".
C33_StartsAtSlash ==
    rout # NotRouted =>
        /\ rout = HandleResult(rtree, StrRoot, ruri, rgiven[1])
        /\ ruri = StrRoot => rout.calls = <<rtree.function>>
        /\ LET named == {i \in 1..Len(rtree.children) :
                            rtree.children[i].dir_name = <<"a">>}
           IN  ruri = <<"/", "a">> /\ named # {} =>
                   rout.calls = <<rtree.children[Lowest(named)].function>>

\* A request for "/" was routed through a root that has children and reached
\* the root handler.
C33_Witness ==
    /\ rtree = Node(StrRoot, "root", << Leaf(<<"a">>, "a1"), Leaf(<<"b">>, "b1") >>)
    /\ ruri = StrRoot
    /\ rgiven # <<>> /\ rgiven[1].ok
    /\ rout.calls = <<"root">>
    /\ rout.result = rgiven[1]

\* C34: in every call of handle made by a parent, the current path key of the
\* child (the key of the `path` string it is given) is the candidate key the
\* parent matched.
C34_ChildGetsCandidate ==
    hcand # <<>> => PathFrom(hpath) = hcand[1]

OrchestratorPanicked ==
    opc \in {"panic_accept", "panic_entity_mut", "panic_take_request", "panic_task"}

\* The handle of a connection is neither registered nor queued for spawning.
Unregistered(c) == c \notin handles \cup cmdSpawn

\* C36: unless a system panics or the handle of the connection is removed, a
\* request in the request slot is eventually taken, a worker in the response
\* wait eventually has a response in its slot, and it eventually leaves the wait
\* to write it.
C36_ExchangeCompletes ==
    \A c \in Conns :
        /\ (reqSlot[c] # <<>>) ~>
               (reqSlot[c] = <<>> \/ OrchestratorPanicked \/ Unregistered(c))
        /\ (wpc[c] = "wait") ~>
               (respSlot[c] # <<>> \/ OrchestratorPanicked \/ Unregistered(c))
        /\ (wpc[c] = "wait") ~>
               (wpc[c] = "write" \/ OrchestratorPanicked \/ Unregistered(c))

\* The worker has taken the response to the request it published and is about
\* to write it; its handle is registered and no system has panicked.
C36_Witness ==
    \E c \in Conns :
        /\ wpc[c] = "write" /\ pubs[c] = 1 /\ takes[c] = 1 /\ nsets[c] = 1
        /\ c \in handles
        /\ ~OrchestratorPanicked

\* C37: unless a system panics, the handle of a worker that has returned is
\* eventually deregistered; and a handle that has been deregistered is never
\* registered again, so that it is deregistered once.
C37_ReapedOnce ==
    /\ \A c \in Conns :
          (wpc[c] = "done" /\ ~Unregistered(c)) ~>
              (Unregistered(c) \/ OrchestratorPanicked)
    /\ [][ \A c \in Conns :
              /\ c <= accepted /\ Unregistered(c) => Unregistered(c)'
              /\ c \in handles /\ c \notin handles' /\ opc = "idle" =>
                    wpc[c] = "done" /\ c \in cmdDespawn /\ c \notin cmdDespawn' ]_vars

\* The worker of a connection returned after one exchange, Reap queued the
\* despawn of its handle and the Commands were applied.
C37_Witness ==
    \E c \in Conns :
        /\ wpc[c] = "done" /\ writes[c] = 1
        /\ c <= accepted /\ Unregistered(c) /\ c \notin alive
        /\ cmdDespawn = {}
        /\ ~OrchestratorPanicked

\* C38: after every step, if run() has returned, both slots of the connection
\* are empty and none of the requests Respond has taken is from it; Respond serves no
\* request of a worker that returned, and Reap queues the despawn of a handle
\* only when both of its slots are empty.
C38_SlotsEmptyAtReturn ==
    [][ /\ \A c \in Conns :
             wpc'[c] = "done" =>
                 /\ reqSlot'[c] = <<>> /\ respSlot'[c] = <<>>
                 /\ \A i \in 1..Len(requests') : requests'[i].entity # c
        /\ opc = "dispatch" /\ requests # <<>> /\ requests' # requests =>
             wpc[Head(requests).entity] # "done"
        /\ \A h \in Conns :
             h \in cmdDespawn' /\ h \notin cmdDespawn =>
                 reqSlot[h] = <<>> /\ respSlot[h] = <<>> ]_vars

\* The worker of a connection returned Ok after an exchange and Reap has
\* queued the despawn of its handle.
C38_Witness ==
    \E c \in Conns :
        /\ wpc[c] = "done" /\ result[c].state = "ok"
        /\ pubs[c] = 1 /\ writes[c] = 1
        /\ c \in handles /\ c \in cmdDespawn

====
